---- MODULE Spec2Model ----
(***************************************************************************)
(* Model of the Vromp navigation engine (src/js/navigation.js, with the    *)
(* routing and utility modules in src/unnamed/part_000 and part_001).      *)
(*                                                                         *)
(* Coordinates are points <<x, y>> of a local plane, in metres east and    *)
(* north of a reference point; the equator is the line y = EquatorY, so a  *)
(* position on it has the falsy latitude 0 of JavaScript.                  *)
(* A distance is carried as its SQUARE (m^2):                              *)
(* squaring is monotone on distances, so every comparison of a distance    *)
(* with a threshold in the code is the same comparison of the squares,     *)
(* and it is exact on integers.  Date.now() is the variable now, in ms.    *)
(* null is the value Null; a null / 0 time is falsy as in JavaScript.      *)
(***************************************************************************)
EXTENDS Integers, Sequences, FiniteSets, TLC

VARIABLES
    screen,             \* which screen showScreen made active
    tripActive,         \* state.tripActive
    arrived,            \* state.arrived
    currentPosition,    \* state.currentPosition (NoPosition while lat is null)
    destination,        \* state.destination
    call,               \* the call of a routing / display / utility function that is
                        \* looked at on its own: name, argument, returned value
    routeGeometry,      \* state.routeGeometry (NoGeometry while null)
    routeSteps,         \* state.routeSteps
    currentStepIndex,   \* state.currentStepIndex (0-based, as in the code)
    distanceToRoute,    \* state.distanceToRoute (squared metres, or Null)
    isOffRoute,         \* state.isOffRoute
    offRouteStartTime,  \* state.offRouteStartTime
    isRerouting,        \* state.isRerouting
    lastRerouteTime,    \* state.lastRerouteTime
    now,                \* Date.now()
    rerouteFetches,     \* performReroute calls awaiting their resolution
    initialFetches,     \* startTrip's fetchRoute calls awaiting their resolution
    startWaits,         \* startTrip calls inside their 1 s wait for a position
    lastEvent,          \* history: what the last handler that ran did (time passing is no handler)
    lastCheck,          \* history: outcome of the most recent deviation check
    withinSinceArm,     \* history: a within-threshold check ran since the timer was last set
    clearedSinceCheck,  \* history: a reroute success or resetApp ran since the last deviation check
    lastFetchAt         \* history: Date.now() at the most recent performReroute call

vars == <<screen, tripActive, arrived, currentPosition, destination, call, routeGeometry, routeSteps,
          currentStepIndex, distanceToRoute, isOffRoute, offRouteStartTime,
          isRerouting, lastRerouteTime, now, rerouteFetches, initialFetches,
          startWaits, lastEvent, lastCheck, withinSinceArm, clearedSinceCheck,
          lastFetchAt>>

engine == <<tripActive, arrived, destination, call, routeGeometry, routeSteps, currentStepIndex,
            distanceToRoute, isOffRoute, offRouteStartTime, isRerouting,
            lastRerouteTime>>

history == <<lastCheck, withinSinceArm, clearedSinceCheck, lastFetchAt>>

-----------------------------------------------------------------------------
(* Bounds of the model *)

\* Date.now() advances in steps of TickMs, up to MaxTime
TickMs == 5000
MaxTime == 15000
\* at most this many reroute fetches / initial fetches / start waits pending
MaxRerouteFetches == 2
MaxInitialFetches == 1
MaxStartWaits == 1
\* the step lists given to determineCurrentStep have at most this many steps
MaxSteps == 3
\* formatDistance is given the distances 0, 250, ... MaxDistanceSteps * 250 cm
MaxDistanceSteps == 80
\* decodePolyline is given the encodings of up to MaxPoints points
MaxPoints == 3
\* a provider route has up to MaxLegs legs, a response up to MaxRoutes routes
MaxLegs == 2
MaxRoutes == 2

-----------------------------------------------------------------------------
(* Program constants *)

Null == -1
Infinity == 1000000000
stepCompletionRadius == 30
arrivalRadius == 75
OFF_ROUTE_THRESHOLD == 75
OFF_ROUTE_DURATION == 3000
\* NAV_CONFIG.longStretchDistance is 3218.69 m; its square is 10359965.3161 m^2,
\* so a squared distance in whole m^2 exceeds it exactly when it exceeds this
longStretchDistanceSq == 10359965
REROUTE_DEBOUNCE == 10000

NoPosition == <<>>
NoGeometry == << <<>> >>
NoDestination == [coordinates |-> <<>>, arrivalRadius |-> Null]
NoCall == [fn |-> "none", arg |-> <<>>, ret |-> <<>>]

\* the y coordinate of the equator: a position on it has lat === 0
EquatorY == -1000

Sq(x) == x * x

\* JavaScript truthiness of a time value: null and 0 are falsy
Truthy(t) == t # Null /\ t # 0

\* state.currentPosition.lat is truthy: neither null nor 0
HasLat(pos) == pos # NoPosition /\ pos[2] # EquatorY

\* the hardcoded destinations
destinations == << [coordinates |-> <<100, 100>>, arrivalRadius |-> 75] >>

-----------------------------------------------------------------------------
(* The routes the provider may return, already parsed by parseRoute *)

\* a step as parseRoute builds it: maneuver type, modifier (or "null") and
\* location, road name, and the decoded geometry of the step
FullStep(type, modifier, loc, name, geometry) ==
    [type |-> type, modifier |-> modifier, location |-> loc, name |-> name,
     geometry |-> geometry]

\* a step the provider gave no modifier, name or geometry
Step(type, loc) == FullStep(type, "null", loc, "Unnamed road", << >>)

RouteMain ==
    [geometry |-> << <<0, 0>>, <<100, 0>>, <<100, 100>> >>,
     steps |-> << Step("depart", <<0, 0>>), Step("turn", <<100, 0>>),
                  Step("arrive", <<100, 100>>) >>]

RouteAlt ==
    [geometry |-> << <<50, -80>>, <<100, -80>>, <<100, 100>> >>,
     steps |-> << Step("depart", <<50, -80>>), Step("arrive", <<100, 100>>) >>]

RouteDegenerate ==
    [geometry |-> << <<100, 100>> >>, steps |-> << >>]

Routes == {RouteMain, RouteAlt, RouteDegenerate}

\* the position samples the sensor may deliver
Positions ==
    { <<69, 0>>, <<99, 0>>, <<50, -80>>, <<50, -75>>, <<100, 26>>, <<100, 24>> }

-----------------------------------------------------------------------------
(* Utility functions *)

\* getDistanceMeters, on the local plane, as the square of the distance
getDistanceSq(a, b) == Sq(a[1] - b[1]) + Sq(a[2] - b[2])

\* getClosestPointOnSegment: projection parameter dot / lenSq clamped to
\* [0, 1]; param stays -1 (start point) on a degenerate segment
getClosestPointOnSegment(point, lineStart, lineEnd) ==
    LET A == point[1] - lineStart[1]
        B == point[2] - lineStart[2]
        C == lineEnd[1] - lineStart[1]
        D == lineEnd[2] - lineStart[2]
        dot == A * C + B * D
        lenSq == C * C + D * D
        closest ==
            IF lenSq = 0 \/ dot < 0 THEN lineStart
            ELSE IF dot > lenSq THEN lineEnd
            ELSE << lineStart[1] + (dot * C) \div lenSq,
                    lineStart[2] + (dot * D) \div lenSq >>
    IN  [point |-> closest, distance |-> getDistanceSq(point, closest)]

RECURSIVE ClosestScan(_, _, _, _)
ClosestScan(userPosition, geometry, i, minDistance) ==
    IF i > Len(geometry) - 1 THEN minDistance
    ELSE LET result == getClosestPointOnSegment(userPosition, geometry[i], geometry[i + 1])
         IN  ClosestScan(userPosition, geometry, i + 1,
                         IF result.distance < minDistance THEN result.distance
                         ELSE minDistance)

\* findClosestPointOnRoute(...).distance: Infinity when there is no segment
findClosestPointOnRoute(userPosition, geometry) ==
    ClosestScan(userPosition, geometry, 1, Infinity)

\* the whole metres of the distance whose square is n
RECURSIVE IsqrtIn(_, _, _)
IsqrtIn(n, lo, hi) ==
    IF lo = hi THEN lo
    ELSE LET mid == (lo + hi + 1) \div 2
         IN  IF mid * mid <= n THEN IsqrtIn(n, mid, hi) ELSE IsqrtIn(n, lo, mid - 1)
Isqrt(n) == IsqrtIn(n, 0, 46340)

\* getDistanceMeters as a number of centimetres (whole metres, times 100)
getDistanceCm(a, b) == 100 * Isqrt(getDistanceSq(a, b))

\* formatDistance, of a distance in cm.  The string is <<unit, number>>:
\* <<"mi", t>> is (t / 10).toFixed(1) + " mi", <<"ft", f>> is f + " ft".
\*   miles >= 0.1            is  cm / 160934 >= 0.1
\*   miles.toFixed(1)        is  round(10 * cm / 160934) tenths
\*   Math.round(feet / 50)   is  floor(cm * 0.000656168 + 0.5), and
\*                               0.000656168 = 82021 / 125000000
formatDistanceFloor50(cm) ==
    IF cm * 10 >= 160934
    THEN <<"mi", (cm * 10 + 80467) \div 160934>>
    ELSE <<"ft", ((cm * 82021) \div 125000000) * 50>>
formatDistance(cm) ==
    IF cm * 10 >= 160934
    THEN <<"mi", (cm * 10 + 80467) \div 160934>>
    ELSE <<"ft", ((cm * 82021 + 62500000) \div 125000000) * 50>>

\* getManeuverIcon; the glyphs are named: "flag", "up", "loop", "left",
\* "slight left", "right", "slight right"
getManeuverIcon(type, modifier) ==
    IF type = "arrive" THEN "flag"
    ELSE IF type = "depart" THEN "up"
    ELSE IF type \in {"roundabout", "rotary"} THEN "loop"
    ELSE CASE modifier \in {"left", "sharp left"} -> "left"
           [] modifier = "slight left" -> "slight left"
           [] modifier \in {"right", "sharp right"} -> "right"
           [] modifier = "slight right" -> "slight right"
           [] OTHER -> "up"

-----------------------------------------------------------------------------
(* Navigation functions *)

\* the completion test of determineCurrentStep
StepCompletedWide(d) == d < Sq(arrivalRadius)
StepCompleted(d) == d < Sq(stepCompletionRadius)

RECURSIVE StepLoopDepartByDistance(_, _, _)
StepLoopDepartByDistance(steps, userPos, currentIndex) ==
    IF /\ currentIndex < Len(steps) - 1
       /\ StepCompleted(getDistanceSq(userPos, steps[currentIndex + 1].location))
    THEN StepLoopDepartByDistance(steps, userPos, currentIndex + 1)
    ELSE currentIndex

RECURSIVE StepLoop(_, _, _)
StepLoop(steps, userPos, currentIndex) ==
    IF currentIndex < Len(steps) - 1
    THEN LET currentStep == steps[currentIndex + 1]
             distanceToManeuver == getDistanceSq(userPos, currentStep.location)
         IN  IF currentStep.type = "depart"
             THEN StepLoop(steps, userPos, currentIndex + 1)
             ELSE IF StepCompleted(distanceToManeuver)
                  THEN StepLoop(steps, userPos, currentIndex + 1)
                  ELSE currentIndex
    ELSE currentIndex

determineCurrentStepOnce(steps, userPos, index) ==
    IF Len(steps) = 0 THEN 0
    ELSE IF index < Len(steps) - 1
              /\ (steps[index + 1].type = "depart"
                    \/ StepCompleted(getDistanceSq(userPos, steps[index + 1].location)))
         THEN index + 1
         ELSE index
determineCurrentStepFromStart(steps, userPos, index) ==
    IF Len(steps) = 0 THEN 0 ELSE StepLoop(steps, userPos, 0)
determineCurrentStep(steps, userPos, index) ==
    IF Len(steps) = 0 THEN 0 ELSE StepLoop(steps, userPos, index)

checkArrival(pos) ==
    IF destination = NoDestination \/ ~HasLat(pos) THEN FALSE
    ELSE LET radius == IF Truthy(destination.arrivalRadius)
                       THEN destination.arrivalRadius ELSE arrivalRadius
         IN  getDistanceSq(pos, destination.coordinates) <= Sq(radius)

\* getCurrentInstruction(state).  roadName is the sequence of the parts of
\* the string; a TypeError (routeSteps[stepIndex] is undefined) is the
\* value Throws.
Calculating ==
    [icon |-> "up", roadName |-> <<"Calculating route...">>, distance |-> << >>]
Throws == [icon |-> "TypeError", roadName |-> << >>, distance |-> << >>]

\* name || 'the road'
RoadName(name) == IF name # "" THEN name ELSE "the road"

NoStepsNever == FALSE
NoSteps == Len(routeSteps) = 0

HasNextStepNever(stepIndex) == FALSE
HasNextStep(stepIndex) == stepIndex + 1 < Len(routeSteps)

LongStretch(d) == d > longStretchDistanceSq

getCurrentInstruction ==
    IF NoSteps THEN Calculating
    ELSE IF currentStepIndex >= Len(routeSteps) THEN Throws
    ELSE
    LET stepIndex == currentStepIndex
        currentStep == routeSteps[stepIndex + 1]
        icon == getManeuverIcon(currentStep.type, currentStep.modifier)
        distanceToManeuver == getDistanceCm(currentPosition, currentStep.location)
    IN  IF currentStep.type = "arrive"
        THEN [icon |-> "flag", roadName |-> <<"Arrive at your destination">>,
              distance |-> formatDistance(
                              getDistanceCm(currentPosition, destination.coordinates))]
        ELSE IF currentStep.type = "depart" /\ HasNextStep(stepIndex)
        THEN LET nextStep == routeSteps[stepIndex + 2]
             IN  [icon |-> getManeuverIcon(nextStep.type, nextStep.modifier),
                  roadName |-> <<RoadName(nextStep.name)>>,
                  distance |-> formatDistance(
                                  getDistanceCm(currentPosition, nextStep.location))]
        ELSE [icon |-> icon,
              roadName |->
                  IF currentStep.type = "depart" THEN <<RoadName(currentStep.name)>>
                  ELSE IF LongStretch(getDistanceSq(currentPosition, currentStep.location))
                       THEN <<"Continue on ", currentStep.name>>
                       ELSE <<RoadName(currentStep.name)>>,
              distance |-> formatDistance(distanceToManeuver)]

\* getCurrentStepGeometry(state)
FallbackStepIndexCurrent(stepIndex) == stepIndex
FallbackStepIndex(stepIndex) ==
    IF stepIndex + 1 < Len(routeSteps) - 1 THEN stepIndex + 1 ELSE Len(routeSteps) - 1

getCurrentStepGeometry ==
    IF currentStepIndex >= Len(routeSteps) THEN << >>
    ELSE LET currentStep == routeSteps[currentStepIndex + 1]
         IN  IF Len(currentStep.geometry) > 0
             THEN <<currentPosition>> \o currentStep.geometry
             ELSE LET nextStep == routeSteps[FallbackStepIndex(currentStepIndex) + 1]
                  IN  <<currentPosition, nextStep.location>>

\* the off-route test and the sustained-deviation test of checkOffRoute
OverThresholdInclusive(d) == d >= Sq(OFF_ROUTE_THRESHOLD)
OverThreshold(d) == d > Sq(OFF_ROUTE_THRESHOLD)

DurationElapsedAtOnce(start, t) == t - start >= 0
DurationElapsed(start, t) == t - start >= OFF_ROUTE_DURATION

\* the debounce test of handleReroute
DebouncedForever(last, t) == Truthy(last)
DebouncedNever(last, t) == FALSE
Debounced(last, t) == Truthy(last) /\ t - last < REROUTE_DEBOUNCE

HasGeometry == routeGeometry # NoGeometry /\ Len(routeGeometry) # 0

\* Which branch checkOffRoute (and handleReroute under it) takes for a sample:
\*   "none"      no geometry, early return
\*   "arm"       over the threshold, timer unset: the timer is set
\*   "wait"      over the threshold, timer set: too early, or a fetch in flight
\*   "debounced" handleReroute returned at its debounce check
\*   "dispatch"  handleReroute called performReroute
\*   "within"    within the threshold: timer and flag cleared
OffRouteBranchIgnoringFlight(pos) ==
    IF ~HasGeometry THEN "none"
    ELSE IF OverThreshold(findClosestPointOnRoute(pos, routeGeometry))
         THEN IF ~Truthy(offRouteStartTime) THEN "arm"
              ELSE IF DurationElapsed(offRouteStartTime, now)
                   THEN IF Debounced(lastRerouteTime, now) THEN "debounced"
                        ELSE "dispatch"
                   ELSE "wait"
         ELSE "within"
OffRouteBranch(pos) ==
    IF ~HasGeometry THEN "none"
    ELSE IF OverThreshold(findClosestPointOnRoute(pos, routeGeometry))
         THEN IF ~Truthy(offRouteStartTime) THEN "arm"
              ELSE IF DurationElapsed(offRouteStartTime, now) /\ ~isRerouting
                   THEN IF Debounced(lastRerouteTime, now) THEN "debounced"
                        ELSE "dispatch"
                   ELSE "wait"
         ELSE "within"

-----------------------------------------------------------------------------
(* State after construction (the state literal and init) *)

Init ==
    /\ screen = "start"
    /\ tripActive = FALSE
    /\ arrived = FALSE
    /\ currentPosition = NoPosition
    /\ destination = destinations[1]
    /\ call = NoCall
    /\ routeGeometry = NoGeometry
    /\ routeSteps = << >>
    /\ currentStepIndex = 0
    /\ distanceToRoute = Null
    /\ isOffRoute = FALSE
    /\ offRouteStartTime = Null
    /\ isRerouting = FALSE
    /\ lastRerouteTime = Null
    /\ now = TickMs
    /\ rerouteFetches = 0
    /\ initialFetches = 0
    /\ startWaits = 0
    /\ lastEvent = "init"
    /\ lastCheck = "none"
    /\ withinSinceArm = FALSE
    /\ clearedSinceCheck = FALSE
    /\ lastFetchAt = Null

-----------------------------------------------------------------------------
(* Handlers *)

\* time passes between two events
Tick ==
    /\ now + TickMs <= MaxTime
    /\ now' = now + TickMs
    /\ UNCHANGED <<screen, currentPosition, engine, rerouteFetches, initialFetches,
                   startWaits, lastEvent, history>>

\* triggerArrival
triggerArrivalStaysActive ==
    /\ tripActive' = tripActive
    /\ arrived' = TRUE
    /\ screen' = "arrival"
    /\ lastEvent' = "arrival"
    /\ UNCHANGED <<destination, call, routeGeometry, routeSteps, currentStepIndex,
                   distanceToRoute, isOffRoute, offRouteStartTime, isRerouting,
                   lastRerouteTime, rerouteFetches, history>>
triggerArrival ==
    /\ tripActive' = FALSE
    /\ arrived' = TRUE
    /\ screen' = "arrival"
    /\ lastEvent' = "arrival"
    /\ UNCHANGED <<destination, call, routeGeometry, routeSteps, currentStepIndex,
                   distanceToRoute, isOffRoute, offRouteStartTime, isRerouting,
                   lastRerouteTime, rerouteFetches, history>>

\* the writes of checkOffRoute to state.offRouteStartTime and state.isOffRoute
NextOffRouteStartTimeSticky(branch) ==
    IF branch = "arm" THEN now ELSE offRouteStartTime
NextOffRouteStartTime(branch) ==
    CASE branch = "arm" -> now
      [] branch = "within" -> Null
      [] OTHER -> offRouteStartTime

NextIsOffRoute(branch) ==
    CASE branch = "arm" -> TRUE
      [] branch = "within" -> FALSE
      [] OTHER -> isOffRoute

\* checkOffRoute, with the synchronous part of handleReroute it may call.
\* The history variables are written from the measured distance itself.
checkOffRoute(pos) ==
    LET branch == OffRouteBranch(pos)
        checked == HasGeometry
        exceeded == findClosestPointOnRoute(pos, routeGeometry) > Sq(OFF_ROUTE_THRESHOLD)
    IN
    /\ branch = "dispatch" => rerouteFetches < MaxRerouteFetches
    /\ lastEvent' = branch
    /\ distanceToRoute' = IF branch = "none" THEN distanceToRoute
                          ELSE findClosestPointOnRoute(pos, routeGeometry)
    /\ offRouteStartTime' = NextOffRouteStartTime(branch)
    /\ isOffRoute' = NextIsOffRoute(branch)
    /\ isRerouting' = IF branch = "dispatch" THEN TRUE ELSE isRerouting
    /\ rerouteFetches' = IF branch = "dispatch" THEN rerouteFetches + 1
                         ELSE rerouteFetches
    /\ lastFetchAt' = IF branch = "dispatch" THEN now ELSE lastFetchAt
    /\ lastCheck' = IF ~checked THEN lastCheck
                    ELSE IF exceeded THEN "over" ELSE "within"
    /\ withinSinceArm' = IF ~Truthy(offRouteStartTime) /\ Truthy(offRouteStartTime')
                         THEN FALSE
                         ELSE IF checked /\ ~exceeded THEN TRUE ELSE withinSinceArm
    /\ clearedSinceCheck' = IF checked THEN FALSE ELSE clearedSinceCheck
    /\ UNCHANGED <<destination, call, routeGeometry, routeSteps, lastRerouteTime>>

\* updateNavigation: arrival first, then the step index, then the off-route check
updateNavigationTracksFirst(pos) ==
    IF checkArrival(pos)
    THEN /\ tripActive' = FALSE
         /\ arrived' = TRUE
         /\ screen' = "arrival"
         /\ lastEvent' = "arrival"
         /\ currentStepIndex' = determineCurrentStep(routeSteps, pos, currentStepIndex)
         /\ UNCHANGED <<destination, call, routeGeometry, routeSteps, distanceToRoute,
                        isOffRoute, offRouteStartTime, isRerouting, lastRerouteTime,
                        rerouteFetches, history>>
    ELSE /\ currentStepIndex' = determineCurrentStep(routeSteps, pos, currentStepIndex)
         /\ checkOffRoute(pos)
         /\ UNCHANGED <<screen, tripActive, arrived>>
updateNavigation(pos) ==
    IF checkArrival(pos)
    THEN /\ triggerArrival
    ELSE /\ currentStepIndex' = determineCurrentStep(routeSteps, pos, currentStepIndex)
         /\ checkOffRoute(pos)
         /\ UNCHANGED <<screen, tripActive, arrived>>

\* updatePosition: a sample from the position source
updatePositionPausedInFlight(pos) ==
    /\ currentPosition' = pos
    /\ UNCHANGED <<now, initialFetches, startWaits>>
    /\ IF tripActive /\ ~isRerouting
       THEN updateNavigation(pos)
       ELSE /\ lastEvent' = "position"
            /\ UNCHANGED <<screen, engine, rerouteFetches, history>>
updatePositionAlwaysNavigates(pos) ==
    /\ currentPosition' = pos
    /\ UNCHANGED <<now, initialFetches, startWaits>>
    /\ updateNavigation(pos)
updatePosition(pos) ==
    /\ currentPosition' = pos
    /\ UNCHANGED <<now, initialFetches, startWaits>>
    /\ IF tripActive
       THEN updateNavigation(pos)
       ELSE /\ lastEvent' = "position"
            /\ UNCHANGED <<screen, engine, rerouteFetches, history>>

\* startTrip once a position is known: show the navigation screen and call fetchRoute
startTripFetch ==
    /\ initialFetches < MaxInitialFetches
    /\ screen' = "nav"
    /\ initialFetches' = initialFetches + 1

\* startTrip, up to its first await (the start button, on the start screen)
startTrip ==
    /\ screen = "start"
    /\ lastEvent' = "startTrip"
    /\ IF ~HasLat(currentPosition)
       THEN /\ startWaits < MaxStartWaits
            /\ startWaits' = startWaits + 1
            /\ UNCHANGED <<screen, initialFetches>>
       ELSE /\ startTripFetch
            /\ UNCHANGED startWaits
    /\ UNCHANGED <<currentPosition, engine, now, rerouteFetches, history>>

\* startTrip after its 1 s wait for a position
startTripResume ==
    /\ startWaits > 0
    /\ startWaits' = startWaits - 1
    /\ lastEvent' = "startTripResume"
    /\ IF ~HasLat(currentPosition)
       THEN /\ screen' = "error"
            /\ UNCHANGED initialFetches
       ELSE startTripFetch
    /\ UNCHANGED <<currentPosition, engine, now, rerouteFetches, history>>

\* startTrip after fetchRoute resolved with a route
startTripSuccess(route) ==
    /\ initialFetches > 0
    /\ initialFetches' = initialFetches - 1
    /\ routeGeometry' = route.geometry
    /\ routeSteps' = route.steps
    /\ currentStepIndex' = 0
    /\ tripActive' = TRUE
    /\ lastEvent' = "startTripSuccess"
    /\ UNCHANGED <<screen, arrived, currentPosition, destination, call, distanceToRoute, isOffRoute,
                   offRouteStartTime, isRerouting, lastRerouteTime, now,
                   rerouteFetches, startWaits, history>>

\* startTrip after fetchRoute rejected
startTripFailureActivates ==
    /\ initialFetches > 0
    /\ initialFetches' = initialFetches - 1
    /\ screen' = "error"
    /\ tripActive' = TRUE
    /\ lastEvent' = "startTripFailure"
    /\ UNCHANGED <<arrived, currentPosition, destination, call, routeGeometry, routeSteps,
                   currentStepIndex, distanceToRoute, isOffRoute, offRouteStartTime,
                   isRerouting, lastRerouteTime, now, rerouteFetches, startWaits,
                   history>>
startTripFailure ==
    /\ initialFetches > 0
    /\ initialFetches' = initialFetches - 1
    /\ screen' = "error"
    /\ lastEvent' = "startTripFailure"
    /\ UNCHANGED <<currentPosition, engine, now, rerouteFetches, startWaits, history>>

\* handleReroute after performReroute resolved with a route (try body, then finally)
rerouteSuccessKeepsTimer(route) ==
    /\ rerouteFetches > 0
    /\ rerouteFetches' = rerouteFetches - 1
    /\ routeGeometry' = route.geometry
    /\ routeSteps' = route.steps
    /\ currentStepIndex' = 0
    /\ lastRerouteTime' = now
    /\ isRerouting' = FALSE
    /\ lastEvent' = "rerouteSuccess"
    /\ clearedSinceCheck' = TRUE
    /\ UNCHANGED <<screen, tripActive, arrived, currentPosition, destination, call, distanceToRoute,
                   isOffRoute, offRouteStartTime, now, initialFetches, startWaits,
                   lastCheck, withinSinceArm, lastFetchAt>>
rerouteSuccessNoIndexReset(route) ==
    /\ rerouteFetches > 0
    /\ rerouteFetches' = rerouteFetches - 1
    /\ routeGeometry' = route.geometry
    /\ routeSteps' = route.steps
    /\ lastRerouteTime' = now
    /\ offRouteStartTime' = Null
    /\ isOffRoute' = FALSE
    /\ isRerouting' = FALSE
    /\ lastEvent' = "rerouteSuccess"
    /\ clearedSinceCheck' = TRUE
    /\ UNCHANGED <<screen, tripActive, arrived, currentPosition, destination, call, currentStepIndex,
                   distanceToRoute, now, initialFetches, startWaits, lastCheck,
                   withinSinceArm, lastFetchAt>>
rerouteSuccessDropsStale(route) ==
    /\ rerouteFetches > 0
    /\ rerouteFetches' = rerouteFetches - 1
    /\ isRerouting' = FALSE
    /\ lastEvent' = "rerouteSuccess"
    /\ IF offRouteStartTime = Null
       THEN UNCHANGED <<routeGeometry, routeSteps, currentStepIndex, lastRerouteTime,
                        offRouteStartTime, isOffRoute, clearedSinceCheck>>
       ELSE /\ routeGeometry' = route.geometry
            /\ routeSteps' = route.steps
            /\ currentStepIndex' = 0
            /\ lastRerouteTime' = now
            /\ offRouteStartTime' = Null
            /\ isOffRoute' = FALSE
            /\ clearedSinceCheck' = TRUE
    /\ UNCHANGED <<screen, tripActive, arrived, currentPosition, destination, call, distanceToRoute,
                   now, initialFetches, startWaits, lastCheck, withinSinceArm,
                   lastFetchAt>>
rerouteSuccess(route) ==
    /\ rerouteFetches > 0
    /\ rerouteFetches' = rerouteFetches - 1
    /\ routeGeometry' = route.geometry
    /\ routeSteps' = route.steps
    /\ currentStepIndex' = 0
    /\ lastRerouteTime' = now
    /\ offRouteStartTime' = Null
    /\ isOffRoute' = FALSE
    /\ isRerouting' = FALSE
    /\ lastEvent' = "rerouteSuccess"
    /\ clearedSinceCheck' = TRUE
    /\ UNCHANGED <<screen, tripActive, arrived, currentPosition, destination, call, distanceToRoute,
                   now, initialFetches, startWaits, lastCheck, withinSinceArm,
                   lastFetchAt>>

\* handleReroute after performReroute rejected (catch, then finally)
rerouteFailureKeepsFlag ==
    /\ rerouteFetches > 0
    /\ rerouteFetches' = rerouteFetches - 1
    /\ lastEvent' = "rerouteFailure"
    /\ UNCHANGED <<screen, currentPosition, engine, now, initialFetches, startWaits,
                   history>>
rerouteFailureStampsTime ==
    /\ rerouteFetches > 0
    /\ rerouteFetches' = rerouteFetches - 1
    /\ isRerouting' = FALSE
    /\ lastRerouteTime' = now
    /\ lastEvent' = "rerouteFailure"
    /\ UNCHANGED <<screen, tripActive, arrived, currentPosition, destination, call, routeGeometry,
                   routeSteps, currentStepIndex, distanceToRoute, isOffRoute,
                   offRouteStartTime, now, initialFetches, startWaits, history>>
rerouteFailure ==
    /\ rerouteFetches > 0
    /\ rerouteFetches' = rerouteFetches - 1
    /\ isRerouting' = FALSE
    /\ lastEvent' = "rerouteFailure"
    /\ UNCHANGED <<screen, tripActive, arrived, currentPosition, destination, call, routeGeometry,
                   routeSteps, currentStepIndex, distanceToRoute, isOffRoute,
                   offRouteStartTime, lastRerouteTime, now, initialFetches,
                   startWaits, history>>

\* resetApp
resetApp ==
    /\ tripActive' = FALSE
    /\ arrived' = FALSE
    /\ routeGeometry' = NoGeometry
    /\ routeSteps' = << >>
    /\ currentStepIndex' = 0
    /\ isOffRoute' = FALSE
    /\ offRouteStartTime' = Null
    /\ isRerouting' = FALSE
    /\ screen' = "start"
    /\ clearedSinceCheck' = TRUE
    /\ UNCHANGED <<currentPosition, destination, call, distanceToRoute, lastRerouteTime, now,
                   rerouteFetches, initialFetches, startWaits, lastCheck,
                   withinSinceArm, lastFetchAt>>

\* endTrip (the end button, on the navigation screen)
endTrip ==
    /\ screen = "nav"
    /\ resetApp
    /\ lastEvent' = "endTrip"

\* the done button, on the arrival screen
doneButton ==
    /\ screen = "arrival"
    /\ resetApp
    /\ lastEvent' = "resetApp"

\* the retry button, on the error screen
retryButton ==
    /\ screen = "error"
    /\ screen' = "start"
    /\ lastEvent' = "retry"
    /\ UNCHANGED <<currentPosition, engine, now, rerouteFetches, initialFetches,
                   startWaits, history>>

-----------------------------------------------------------------------------
(* Specifications *)

\* the events of one trip: no trip is ended or reset
NextOneTrip ==
    \/ Tick
    \/ \E pos \in Positions : updatePosition(pos)
    \/ startTrip
    \/ startTripResume
    \/ \E route \in Routes : startTripSuccess(route)
    \/ startTripFailure
    \/ \E route \in Routes : rerouteSuccess(route)
    \/ rerouteFailure
    \/ retryButton

Next ==
    \/ NextOneTrip
    \/ endTrip
    \/ doneButton

Spec == Init /\ [][Next]_vars

SpecOneTrip == Init /\ [][NextOneTrip]_vars

-----------------------------------------------------------------------------
(* A trip on which the user stays off the route, with time that never stops. *)
(* Once Date.now() stands at MaxTime, the passing of TickMs is written as   *)
(* every stored time moving back by TickMs: the code only compares          *)
(* differences Date.now() - t with 3000 and 10000, so a time that lies      *)
(* REROUTE_DEBOUNCE or more back is kept exactly REROUTE_DEBOUNCE back.     *)

Aged(t) ==
    IF ~Truthy(t) THEN t
    ELSE IF now - (t - TickMs) >= REROUTE_DEBOUNCE THEN now - REROUTE_DEBOUNCE
         ELSE t - TickMs

TickShifted ==
    /\ now + TickMs > MaxTime
    /\ now > REROUTE_DEBOUNCE
    /\ offRouteStartTime' = Aged(offRouteStartTime)
    /\ lastRerouteTime' = Aged(lastRerouteTime)
    /\ lastFetchAt' = Aged(lastFetchAt)
    /\ UNCHANGED <<screen, tripActive, arrived, currentPosition, destination, call,
                   routeGeometry, routeSteps, currentStepIndex, distanceToRoute,
                   isOffRoute, isRerouting, now, rerouteFetches, initialFetches,
                   startWaits, lastEvent, lastCheck, withinSinceArm,
                   clearedSinceCheck>>

\* the samples of a user who is away from every route
LivePositions == { <<50, -80>>, <<-100, 0>> }

\* a sample more than 75 m from the installed route, short of the destination
offRouteSample(pos) ==
    /\ findClosestPointOnRoute(pos, routeGeometry) > Sq(OFF_ROUTE_THRESHOLD)
    /\ ~checkArrival(pos)
    /\ updatePosition(pos)

NextLive ==
    \/ Tick
    \/ TickShifted
    \/ \E pos \in LivePositions : offRouteSample(pos)
    \/ startTrip
    \/ startTripResume
    \/ \E route \in Routes : startTripSuccess(route)
    \/ startTripFailure
    \/ \E route \in Routes : rerouteSuccess(route)
    \/ rerouteFailure
    \/ retryButton

\* time keeps advancing, samples keep arriving, every reroute fetch resolves
SpecLive ==
    /\ Init
    /\ [][NextLive]_vars
    /\ WF_vars(Tick \/ TickShifted)
    /\ WF_vars(\E pos \in LivePositions : offRouteSample(pos))
    /\ WF_vars((\E route \in Routes : rerouteSuccess(route)) \/ rerouteFailure)

-----------------------------------------------------------------------------
(* The navigation functions on their own: updateNavigation's calls of       *)
(* checkArrival and determineCurrentStep, applied to a state whose position, *)
(* destination, steps and step index are drawn from the sets below.         *)

StepKinds == {"depart", "turn"}
StepPoints == { <<0, 0>>, <<100, 0>> }
StepValues == { Step(k, l) : k \in StepKinds, l \in StepPoints }
StepLists == UNION { [1 .. n -> StepValues] : n \in 0 .. MaxSteps }

\* destinations as init could install them: the hardcoded one, one with a
\* radius of 0, one that sets no radius, and one 30 m south of the equator
Destinations ==
    { destinations[1],
      [coordinates |-> <<100, 100>>, arrivalRadius |-> 0],
      [coordinates |-> <<100, 100>>, arrivalRadius |-> Null],
      [coordinates |-> <<0, EquatorY - 30>>, arrivalRadius |-> 75] }

\* the samples, one on the equator, and the destination point itself
FunctionPositions == Positions \cup { <<0, EquatorY>>, <<100, 100>> }

InitFunctions ==
    /\ screen = "nav"
    /\ tripActive = TRUE
    /\ arrived = FALSE
    /\ currentPosition \in FunctionPositions
    /\ destination \in Destinations
    /\ call = NoCall
    /\ routeGeometry = RouteMain.geometry
    /\ routeSteps \in StepLists
    /\ currentStepIndex \in 0 .. (IF Len(routeSteps) = 0 THEN 0 ELSE Len(routeSteps) - 1)
    /\ distanceToRoute = Null
    /\ isOffRoute = FALSE
    /\ offRouteStartTime = Null
    /\ isRerouting = FALSE
    /\ lastRerouteTime = Null
    /\ now = TickMs
    /\ rerouteFetches = 0
    /\ initialFetches = 0
    /\ startWaits = 0
    /\ lastEvent = "init"
    /\ lastCheck = "none"
    /\ withinSinceArm = FALSE
    /\ clearedSinceCheck = FALSE
    /\ lastFetchAt = Null

\* updateNavigation's step tracking: determineCurrentStep, result stored
advanceStep ==
    /\ tripActive
    /\ currentStepIndex' = determineCurrentStep(routeSteps, currentPosition, currentStepIndex)
    /\ lastEvent' = "advance"
    /\ UNCHANGED <<screen, tripActive, arrived, currentPosition, destination, call,
                   routeGeometry, routeSteps, distanceToRoute, isOffRoute,
                   offRouteStartTime, isRerouting, lastRerouteTime, now,
                   rerouteFetches, initialFetches, startWaits, history>>

\* updateNavigation's arrival check: checkArrival, then triggerArrival
arrivalCheck ==
    /\ tripActive
    /\ IF checkArrival(currentPosition)
       THEN /\ triggerArrival
            /\ UNCHANGED <<currentPosition, now, initialFetches, startWaits>>
       ELSE /\ lastEvent' = "notArrived"
            /\ UNCHANGED <<screen, currentPosition, engine, now, rerouteFetches,
                           initialFetches, startWaits, history>>

NextFunctions ==
    \/ advanceStep
    \/ arrivalCheck

SpecFunctions == InitFunctions /\ [][NextFunctions]_vars

-----------------------------------------------------------------------------
(* The display functions on their own: updateNavigationUI's calls of         *)
(* getCurrentInstruction and getCurrentStepGeometry, on a state whose        *)
(* position, steps and step index are drawn from the sets below.            *)

\* everything but the call looked at and the mark of the last event
outsideCall ==
    <<screen, tripActive, arrived, currentPosition, destination, routeGeometry,
      routeSteps, currentStepIndex, distanceToRoute, isOffRoute, offRouteStartTime,
      isRerouting, lastRerouteTime, now, rerouteFetches, initialFetches,
      startWaits, history>>

\* the state literal, as far as it concerns trip and route
AtStart ==
    /\ screen = "start"
    /\ tripActive = FALSE
    /\ arrived = FALSE
    /\ currentPosition = NoPosition
    /\ destination = destinations[1]
    /\ routeGeometry = NoGeometry
    /\ routeSteps = << >>
    /\ currentStepIndex = 0

\* the state literal, as far as it concerns re-routing; nothing is pending
Idle ==
    /\ distanceToRoute = Null
    /\ isOffRoute = FALSE
    /\ offRouteStartTime = Null
    /\ isRerouting = FALSE
    /\ lastRerouteTime = Null
    /\ now = TickMs
    /\ rerouteFetches = 0
    /\ initialFetches = 0
    /\ startWaits = 0
    /\ lastEvent = "init"
    /\ lastCheck = "none"
    /\ withinSinceArm = FALSE
    /\ clearedSinceCheck = FALSE
    /\ lastFetchAt = Null

InstructionStepValues ==
    { FullStep("depart", "null", <<0, 0>>, "Main St", << <<0, 0>>, <<100, 0>> >>),
      FullStep("turn", "left", <<100, 0>>, "Oak Ave", << >>),
      FullStep("arrive", "null", <<100, 100>>, "Unnamed road", << >>) }
InstructionStepLists ==
    UNION { [1 .. n -> InstructionStepValues] : n \in 0 .. MaxSteps }

\* 1 m, 31 m, 3218 m and 3219 m from the turn at <<100, 0>>
InstructionPositions == { <<99, 0>>, <<69, 0>>, <<3318, 0>>, <<3319, 0>> }

\* the step index may also stand just past the last step
InitInstruction ==
    /\ screen = "nav"
    /\ tripActive = TRUE
    /\ arrived = FALSE
    /\ currentPosition \in InstructionPositions
    /\ destination = destinations[1]
    /\ call = NoCall
    /\ routeGeometry = RouteMain.geometry
    /\ routeSteps \in InstructionStepLists
    /\ currentStepIndex \in 0 .. Len(routeSteps)
    /\ Idle

callGetCurrentInstruction ==
    /\ call' = [fn |-> "getCurrentInstruction", arg |-> << >>,
                ret |-> getCurrentInstruction]
    /\ lastEvent' = "getCurrentInstruction"
    /\ UNCHANGED outsideCall

callGetCurrentStepGeometry ==
    /\ call' = [fn |-> "getCurrentStepGeometry", arg |-> << >>,
                ret |-> getCurrentStepGeometry]
    /\ lastEvent' = "getCurrentStepGeometry"
    /\ UNCHANGED outsideCall

NextInstruction ==
    \/ callGetCurrentInstruction
    \/ callGetCurrentStepGeometry

SpecInstruction == InitInstruction /\ [][NextInstruction]_vars

-----------------------------------------------------------------------------
(* formatDistance on its own, on distances drawn from the set below *)

\* in cm: 0 m to 200 m in steps of 2.5 m, the two ends of the 0.1 mile
\* boundary (160.934 m), 1609.34 m and 3218.69 m
Distances ==
    { k * 250 : k \in 0 .. MaxDistanceSteps } \cup { 16093, 16094, 160934, 321869 }

InitFormat ==
    /\ AtStart
    /\ Idle
    /\ call \in { [fn |-> "formatDistance", arg |-> cm, ret |-> << >>] : cm \in Distances }

callFormatDistance ==
    /\ call.fn = "formatDistance"
    /\ call.ret = << >>
    /\ call' = [call EXCEPT !.ret = formatDistance(call.arg)]
    /\ lastEvent' = "formatDistance"
    /\ UNCHANGED outsideCall

NextFormat == callFormatDistance

SpecFormat == InitFormat /\ [][NextFormat]_vars

-----------------------------------------------------------------------------
(* decodePolyline.  An encoded string is the sequence of its character      *)
(* codes; a decoded point is <<lat, lng>> in units of 1e-5 degree, the       *)
(* integers that decodePolyline divides by 1e5.                              *)

\* one varint: the do-while loop of decodePolyline, from the 1-based position
\* index, giving <<result, position after it>>.  The chunks occupy disjoint
\* bits, so |= adds.  Past the end charCodeAt is NaN: b & 0x1f is 0 and
\* b >= 0x20 is false, so the loop ends with the result it has.
RECURSIVE ReadVarint(_, _, _, _)
ReadVarint(encoded, index, shift, result) ==
    IF index > Len(encoded) THEN <<result, index + 1>>
    ELSE LET b == encoded[index] - 63
             r == result + (b % 32) * 2 ^ shift
         IN  IF b >= 32 THEN ReadVarint(encoded, index + 1, shift + 5, r)
             ELSE <<r, index + 1>>

\* (result & 1) ? ~(result >> 1) : (result >> 1)
SignedDeltaUnsigned(result) == result \div 2
SignedDelta(result) ==
    IF result % 2 = 1 THEN -(result \div 2) - 1 ELSE result \div 2

\* the while loop of decodePolyline
RECURSIVE DecodeFrom(_, _, _, _, _)
DecodeFrom(encoded, index, lat, lng, points) ==
    IF index <= Len(encoded)
    THEN LET first == ReadVarint(encoded, index, 0, 0)
             newLat == lat + SignedDelta(first[1])
             second == ReadVarint(encoded, first[2], 0, 0)
             newLng == lng + SignedDelta(second[1])
         IN  DecodeFrom(encoded, second[2], newLat, newLng,
                        Append(points, <<newLat, newLng>>))
    ELSE points

decodePolyline(encoded) == DecodeFrom(encoded, 1, 0, 0, << >>)

\* The reference encoder (the polyline algorithm the decoder is written
\* against): each delta from the previous point is zig-zag coded and written
\* low 5 bits first, every chunk but the last with the continuation bit 0x20,
\* each plus 63.
ZigZag(v) == IF v < 0 THEN -2 * v - 1 ELSE 2 * v

RECURSIVE Chunks(_)
Chunks(z) ==
    IF z >= 32 THEN << (z % 32) + 32 + 63 >> \o Chunks(z \div 32)
    ELSE << z + 63 >>

RECURSIVE EncodeFrom(_, _, _, _)
EncodeFrom(coords, i, lat, lng) ==
    IF i > Len(coords) THEN << >>
    ELSE Chunks(ZigZag(coords[i][1] - lat)) \o Chunks(ZigZag(coords[i][2] - lng))
           \o EncodeFrom(coords, i + 1, coords[i][1], coords[i][2])

encodePolyline(coords) == EncodeFrom(coords, 1, 0, 0)

\* points at 1e-5 degree: (38.5, -120.2), (40.7, -120.95), the origin,
\* (-0.00001, 0.00016), and the two corners of the coordinate range
PolylinePoints ==
    { <<3850000, -12020000>>, <<4070000, -12095000>>, <<0, 0>>, <<-1, 16>>,
      <<9000000, 18000000>>, <<-9000000, -18000000>> }

PolylineCoords == UNION { [1 .. n -> PolylinePoints] : n \in 0 .. MaxPoints }

\* "_p~iF~ps|U_ulLnnqC_mqNvxq`@", the worked example of the encoding:
\* (38.5, -120.2), (40.7, -120.95), (43.252, -126.453)
PolylineExample ==
    << 95, 112, 126, 105, 70, 126, 112, 115, 124, 85, 95, 117, 108, 76, 110, 110,
       113, 67, 95, 109, 113, 78, 118, 120, 113, 96, 64 >>

\* the strings handed to decodePolyline
EncodedInputs ==
    { encodePolyline(coords) : coords \in PolylineCoords } \cup { PolylineExample }

InitPolyline ==
    /\ AtStart
    /\ Idle
    /\ call \in { [fn |-> "decodePolyline", arg |-> encoded, ret |-> << >>] :
                     encoded \in EncodedInputs }

callDecodePolyline ==
    /\ call.fn = "decodePolyline"
    /\ lastEvent = "init"
    /\ call' = [call EXCEPT !.ret = decodePolyline(call.arg)]
    /\ lastEvent' = "decodePolyline"
    /\ UNCHANGED outsideCall

NextPolyline == callDecodePolyline

SpecPolyline == InitPolyline /\ [][NextPolyline]_vars

-----------------------------------------------------------------------------
(* fetchRoute and parseRoute on their own, on provider responses drawn from  *)
(* the sets below.  Provider locations are <<lng, lat>> in units of 1e-5     *)
(* degree; an absent modifier or name is "", an absent geometry << >>.       *)

\* what a call gives: the value it returns, or the error it throws
Returns(route) == [error |-> "none", route |-> route]
ThrowsError(message) == [error |-> message, route |-> << >>]

\* the object parseRoute builds for the step at a (0-based) index
ParsedStep(step, index) ==
    [index |-> index,
     maneuver |-> [type |-> step.maneuver.type,
                   modifier |-> IF step.maneuver.modifier # ""
                                THEN step.maneuver.modifier ELSE "null",
                   location |-> [lat |-> step.maneuver.location[2],
                                 lng |-> step.maneuver.location[1]]],
     name |-> IF step.name # "" THEN step.name ELSE "Unnamed road",
     distance |-> step.distance,
     duration |-> step.duration,
     geometry |-> IF step.geometry # << >> THEN decodePolyline(step.geometry)
                  ELSE << >>]

\* parseRoute; route.legs[0].steps of a route without legs is a TypeError
parseRoute(route) ==
    IF Len(route.legs) = 0 THEN ThrowsError("TypeError")
    ELSE LET leg == route.legs[1]
         IN  Returns([distance |-> route.distance,
                      duration |-> route.duration,
                      geometry |-> decodePolyline(route.geometry),
                      steps |-> [i \in 1 .. Len(leg.steps)
                                   |-> ParsedStep(leg.steps[i], i - 1)]])

\* data.code !== 'Ok'
StatusNotOkNever(data) == FALSE
StatusNotOk(data) == data.code # "Ok"

\* !data.routes || data.routes.length === 0
NoRoutes(data) == ~data.routesPresent \/ Len(data.routes) = 0

\* fetchRoute, from what fetch gave: no response, or a status and a body
fetchRoute(response) ==
    IF ~response.reached THEN ThrowsError("TypeError")
    ELSE IF ~response.ok THEN ThrowsError("OSRM API error")
    ELSE IF StatusNotOk(response.data) \/ NoRoutes(response.data)
         THEN ThrowsError("No route found")
         ELSE parseRoute(response.data.routes[1])

ProviderStep(type, modifier, location, name, geometry) ==
    [maneuver |-> [type |-> type, modifier |-> modifier, location |-> location],
     name |-> name, distance |-> 100, duration |-> 10, geometry |-> geometry]

\* a leg from (38.5, -120.2) by a left turn at (40.7, -120.95), and a leg
\* that starts at that turn; both arrive at (43.252, -126.453)
LegMain ==
    [steps |-> << ProviderStep("depart", "", <<-12020000, 3850000>>, "Main St",
                               encodePolyline(<< <<3850000, -12020000>>,
                                                 <<4070000, -12095000>> >>)),
                  ProviderStep("turn", "left", <<-12095000, 4070000>>, "", << >>),
                  ProviderStep("arrive", "", <<-12645300, 4325200>>, "Oak Ave",
                               << >>) >>]
LegSecond ==
    [steps |-> << ProviderStep("depart", "", <<-12095000, 4070000>>, "Oak Ave",
                               << >>),
                  ProviderStep("arrive", "right", <<-12645300, 4325200>>, "", << >>) >>]

ProviderLegs == UNION { [1 .. n -> {LegMain, LegSecond}] : n \in 0 .. MaxLegs }

ProviderRoutes ==
    { [distance |-> 500, duration |-> 60, geometry |-> geometry, legs |-> legs] :
        geometry \in { PolylineExample, << >> }, legs \in ProviderLegs }

ProviderRouteLists == UNION { [1 .. n -> ProviderRoutes] : n \in 0 .. MaxRoutes }

\* the body of a response: the status code, and the route list or none
ProviderData ==
    { [code |-> code, routesPresent |-> TRUE, routes |-> routes] :
        code \in {"Ok", "NoRoute"}, routes \in ProviderRouteLists }
    \cup { [code |-> code, routesPresent |-> FALSE, routes |-> << >>] :
             code \in {"Ok", "NoRoute"} }

\* the request failed, or a response came with an HTTP status and a body
Responses ==
    { [reached |-> reached, ok |-> ok, data |-> data] :
        reached \in BOOLEAN, ok \in BOOLEAN, data \in ProviderData }

InitRouting ==
    /\ AtStart
    /\ Idle
    /\ call \in { [fn |-> "fetchRoute", arg |-> response, ret |-> << >>] :
                    response \in Responses }
                \cup { [fn |-> "parseRoute", arg |-> route, ret |-> << >>] :
                         route \in ProviderRoutes }

callFetchRoute ==
    /\ call.fn = "fetchRoute"
    /\ lastEvent = "init"
    /\ call' = [call EXCEPT !.ret = fetchRoute(call.arg)]
    /\ lastEvent' = "fetchRoute"
    /\ UNCHANGED outsideCall

callParseRoute ==
    /\ call.fn = "parseRoute"
    /\ lastEvent = "init"
    /\ call' = [call EXCEPT !.ret = parseRoute(call.arg)]
    /\ lastEvent' = "parseRoute"
    /\ UNCHANGED outsideCall

NextRouting ==
    \/ callFetchRoute
    \/ callParseRoute

SpecRouting == InitRouting /\ [][NextRouting]_vars

-----------------------------------------------------------------------------
(* Properties *)

\* a step that calls performReroute
Dispatches == rerouteFetches' > rerouteFetches

\* a step that is the resolution of a reroute fetch
ResolvesWith(outcome) ==
    rerouteFetches' = rerouteFetches - 1 /\ lastEvent' = outcome

\* sample pos, delivered now, gets as far as the deviation check
ReachesCheck(pos) == tripActive /\ ~checkArrival(pos) /\ HasGeometry

\* the measured distance of pos to the installed route is above 75 m
Above75(pos) ==
    findClosestPointOnRoute(pos, routeGeometry) > OFF_ROUTE_THRESHOLD * OFF_ROUTE_THRESHOLD

\* C1: within one trip at most one reroute fetch is outstanding at any time:
\* a fetch is dispatched only by a position update, and only while none is in
\* flight (isRerouting false, nothing outstanding); a resolution dispatches
\* nothing, so nothing was queued.
C1_SingleFlight ==
    /\ rerouteFetches <= 1
    /\ [][ /\ rerouteFetches' <= 1
           /\ Dispatches => /\ ~isRerouting
                             /\ rerouteFetches = 0
                             /\ lastEvent' = "dispatch"
                             /\ \E pos \in Positions : updatePosition(pos) ]_vars

\* C1 witness: a sample that met the distance and duration conditions was
\* processed while the fetch was in flight, and one fetch is outstanding.
C1_Witness ==
    /\ tripActive /\ isRerouting /\ rerouteFetches = 1
    /\ lastEvent = "wait"
    /\ Truthy(offRouteStartTime)
    /\ lastFetchAt - offRouteStartTime >= OFF_ROUTE_DURATION
    /\ lastRerouteTime = Null

\* C2 (as claimed): any two performReroute calls of one trip are at least
\* 10 000 ms apart, whether the earlier fetch succeeded or failed.
C2_FetchesTenSecondsApart ==
    [][ Dispatches => (lastFetchAt = Null \/ now - lastFetchAt >= REROUTE_DEBOUNCE) ]_vars

\* C3: a sample reaching the deviation check that is above 75 m with the timer
\* unset sets offRouteStartTime to the current time and dispatches nothing; a
\* fetch is dispatched only by a sample above 75 m, with the timer set at least
\* 3000 ms earlier and left as it was, and no within-threshold sample since.
C3_Hysteresis ==
    [][ /\ \A pos \in Positions :
              (updatePosition(pos) /\ ReachesCheck(pos) /\ Above75(pos)
                 /\ ~Truthy(offRouteStartTime))
              => (offRouteStartTime' = now /\ ~Dispatches)
        /\ Dispatches =>
              /\ Truthy(offRouteStartTime)
              /\ now - offRouteStartTime >= OFF_ROUTE_DURATION
              /\ ~withinSinceArm
              /\ offRouteStartTime' = offRouteStartTime
              /\ ReachesCheck(currentPosition') /\ Above75(currentPosition') ]_vars

\* C3 witness: a fetch was dispatched by a sample 3000 ms or more after the
\* sample that set the timer.
C3_Witness ==
    /\ lastEvent = "dispatch" /\ rerouteFetches = 1
    /\ Truthy(offRouteStartTime)
    /\ lastFetchAt - offRouteStartTime >= OFF_ROUTE_DURATION
    /\ ~withinSinceArm

\* no fetch is dispatched unless the timer was set by an over-threshold sample
\* after the last within-threshold sample, 3000 ms or more ago
NoDispatchBeforeNewTimer ==
    Dispatches => /\ lastCheck = "over" /\ ~withinSinceArm
                  /\ offRouteStartTime # Null
                  /\ now >= offRouteStartTime + OFF_ROUTE_DURATION

\* C4 (as claimed): every sample within 75 m of the route that is processed on
\* an active trip with a route clears offRouteStartTime and isOffRoute.
C4_WithinAlwaysClears ==
    [][ /\ \A pos \in Positions :
              (updatePosition(pos) /\ tripActive /\ HasGeometry /\ ~Above75(pos))
              => (offRouteStartTime' = Null /\ isOffRoute' = FALSE)
        /\ NoDispatchBeforeNewTimer ]_vars

\* C4 (amended): every sample within 75 m of the route that is processed on an
\* active trip with a route and does not meet the arrival condition clears
\* offRouteStartTime and isOffRoute, fetch in flight or not; after it nothing
\* is dispatched until a new over-threshold sample set the timer 3000 ms ago.
C4_WithinClearsUnlessArrival ==
    [][ /\ \A pos \in Positions :
              (updatePosition(pos) /\ ReachesCheck(pos) /\ ~Above75(pos))
              => (offRouteStartTime' = Null /\ isOffRoute' = FALSE)
        /\ NoDispatchBeforeNewTimer ]_vars

\* C4 witness: a within-threshold sample cleared the timer while a fetch was in flight.
C4_Witness ==
    /\ lastEvent = "within" /\ tripActive
    /\ isRerouting /\ rerouteFetches = 1
    /\ offRouteStartTime = Null /\ ~isOffRoute
    /\ lastCheck = "within" /\ withinSinceArm

\* C5: the completion of a successful reroute fetch installs the geometry and
\* steps of one new route, sets currentStepIndex to 0 and lastRerouteTime to
\* the current time, and clears offRouteStartTime and isOffRoute, in one step
\* in which no position is taken in and no time passes.
C5_SuccessInstallsRoute ==
    [][ ResolvesWith("rerouteSuccess") =>
          /\ \E route \in Routes :
                routeGeometry' = route.geometry /\ routeSteps' = route.steps
          /\ currentStepIndex' = 0
          /\ lastRerouteTime' = now
          /\ offRouteStartTime' = Null
          /\ isOffRoute' = FALSE
          /\ currentPosition' = currentPosition /\ now' = now ]_vars

\* C5 witness: a reroute completed on an active trip and installed RouteAlt.
C5_Witness ==
    /\ lastEvent = "rerouteSuccess" /\ tripActive
    /\ routeGeometry = RouteAlt.geometry /\ routeSteps = RouteAlt.steps
    /\ currentStepIndex = 0 /\ lastRerouteTime = now
    /\ offRouteStartTime = Null /\ lastCheck = "over"

C7_ReroutingFlag ==
    /\ ~isRerouting
    /\ [](isRerouting => rerouteFetches >= 1)
    /\ [][ /\ (isRerouting' /\ ~isRerouting) => Dispatches
           /\ Dispatches => isRerouting'
           /\ (ResolvesWith("rerouteSuccess") \/ ResolvesWith("rerouteFailure"))
                => ~isRerouting' ]_vars

\* C7 witness: the flag is up right after a dispatch, with its fetch outstanding.
C7_Witness ==
    isRerouting /\ rerouteFetches = 1 /\ lastEvent = "dispatch" /\ lastFetchAt = now

\* C8 (as claimed): offRouteStartTime is set if and only if the most recent
\* deviation check found the distance above 75 m.
C8_TimerIffLastCheckOver ==
    Truthy(offRouteStartTime) <=> lastCheck = "over"

\* C8 (amended): offRouteStartTime is set if and only if the most recent
\* deviation check found the distance above 75 m and no successful reroute
\* completion or resetApp has run since that check.
C8_TimerIffOverAndNotCleared ==
    Truthy(offRouteStartTime) <=> (lastCheck = "over" /\ ~clearedSinceCheck)

\* C8 witness: the last check was above 75 m, and the reroute it led to has
\* completed and cleared the timer.
C8_Witness ==
    /\ lastCheck = "over" /\ clearedSinceCheck /\ offRouteStartTime = Null
    /\ lastEvent = "rerouteSuccess" /\ tripActive

\* C9: currentStepIndex is 0 when routeSteps is empty and a valid index
\* 0 .. routeSteps.length - 1 otherwise.
C9_StepIndexValid ==
    IF Len(routeSteps) = 0 THEN currentStepIndex = 0
    ELSE currentStepIndex >= 0 /\ currentStepIndex <= Len(routeSteps) - 1

\* C9 witness: a reroute installed the two-step route on an active trip and
\* the index is back at 0.
C9_Witness ==
    /\ lastEvent = "rerouteSuccess" /\ routeSteps = RouteAlt.steps
    /\ currentStepIndex = 0 /\ tripActive

\* the step the index points at, and the distance of a sample to its maneuver
StepAt(i) == routeSteps[i + 1]
Within30(pos, i) ==
    getDistanceSq(pos, StepAt(i).location) < stepCompletionRadius * stepCompletionRadius

\* a position update that runs determineCurrentStep
TracksStep(pos) == updatePosition(pos) /\ tripActive /\ ~checkArrival(pos)

\* C10 (as claimed): step advancement moves past the step at the current
\* index only when the position is less than 30 m from its maneuver location.
C10_AdvanceOnlyWithin30 ==
    [][ \A pos \in Positions :
          (TracksStep(pos) /\ currentStepIndex' # currentStepIndex)
          => Within30(pos, currentStepIndex) ]_vars

\* C10 (amended): step advancement moves past a step only when it is a depart
\* step or the position is less than 30 m from its maneuver location; it
\* stops on the last step or on a step that is not a depart step and whose
\* maneuver location is 30 m or more away, so that index is returned unchanged.
C10_AdvanceWithin30OrDepart ==
    [][ \A pos \in Positions :
          (TracksStep(pos) /\ Len(routeSteps) > 0) =>
            /\ currentStepIndex' >= currentStepIndex
            /\ \A j \in currentStepIndex .. currentStepIndex' - 1 :
                  StepAt(j).type = "depart" \/ Within30(pos, j)
            /\ \/ currentStepIndex' >= Len(routeSteps) - 1
               \/ /\ StepAt(currentStepIndex').type # "depart"
                  /\ ~Within30(pos, currentStepIndex') ]_vars

\* C10 witness: on the three-step route the sample 1 m from the turn moved
\* the index from the turn to the last step.
C10_Witness ==
    /\ tripActive /\ routeSteps = RouteMain.steps
    /\ currentPosition = <<99, 0>> /\ currentStepIndex = 2
    /\ lastEvent = "within"

\* C11: step advancement is idempotent: after determineCurrentStep was applied
\* and its result stored as currentStepIndex, applying it again to the same
\* steps and position returns the stored index.
C11_AdvanceIdempotent ==
    lastEvent = "advance"
    => determineCurrentStep(routeSteps, currentPosition, currentStepIndex) = currentStepIndex

\* C11 witness: on a depart-turn-turn list the sample 1 m from the first turn
\* was tracked; the index stands on the last step.
C11_Witness ==
    /\ lastEvent = "advance" /\ currentPosition = <<99, 0>>
    /\ routeSteps = << Step("depart", <<0, 0>>), Step("turn", <<100, 0>>),
                       Step("turn", <<100, 0>>) >>
    /\ currentStepIndex = 2

\* the radius the claim gives a destination: its own, 75 m when it sets none
ClaimedRadius(dest) ==
    IF dest.arrivalRadius = Null THEN arrivalRadius ELSE dest.arrivalRadius

WithinClaimedRadius ==
    getDistanceSq(currentPosition, destination.coordinates) <= Sq(ClaimedRadius(destination))

\* C12 (as claimed): checkArrival is true exactly when the distance from the
\* position to the destination coordinate is at most the destination's
\* arrivalRadius (75 m when it sets none), for every position and destination.
C12_ArrivalIffWithinRadius ==
    /\ lastEvent = "arrival" => WithinClaimedRadius
    /\ lastEvent = "notArrived" => ~WithinClaimedRadius

\* C13: a position update on an active trip that meets the arrival condition
\* ends the trip and does nothing else: currentStepIndex, distanceToRoute,
\* offRouteStartTime, isOffRoute and isRerouting are unchanged and no reroute
\* is dispatched, wherever the sample lies relative to maneuvers and route.
C13_ArrivalTakesPrecedence ==
    [][ \A pos \in Positions :
          (updatePosition(pos) /\ tripActive /\ checkArrival(pos))
          => /\ UNCHANGED <<currentStepIndex, distanceToRoute, offRouteStartTime,
                            isOffRoute, isRerouting, routeGeometry, routeSteps>>
             /\ ~Dispatches
             /\ lastEvent' = "arrival" ]_vars

\* C13 witness: arrival was triggered by a sample 26 m from the maneuver point
\* of the current step (the turn), and the index still stands on that step.
C13_Witness ==
    /\ lastEvent = "arrival" /\ arrived /\ ~tripActive
    /\ currentPosition = <<100, 26>>
    /\ routeSteps = RouteMain.steps /\ currentStepIndex = 1
    /\ Within30(currentPosition, currentStepIndex)

\* C14: arrival is triggered only on an active trip and ends it (tripActive
\* false, arrived true); a trip becomes active again only when startTrip
\* installs a route; and while no trip is active a position update triggers
\* no arrival, advances no step, changes no off-route state and dispatches
\* no reroute.
C14_ArrivalTerminal ==
    [][ /\ (arrived' /\ ~arrived) => (tripActive /\ ~tripActive' /\ lastEvent' = "arrival")
        /\ \A pos \in Positions :
              (updatePosition(pos) /\ tripActive /\ checkArrival(pos))
              => (~tripActive' /\ arrived')
        /\ (tripActive' /\ ~tripActive) => lastEvent' = "startTripSuccess"
        /\ \A pos \in Positions :
              (updatePosition(pos) /\ ~tripActive)
              => /\ UNCHANGED <<tripActive, arrived, screen, currentStepIndex,
                                distanceToRoute, offRouteStartTime, isOffRoute,
                                isRerouting>>
                 /\ ~Dispatches ]_vars

\* C14 witness: after arrival, a further sample inside the arrival radius was
\* taken in and the arrival state is as triggerArrival left it.
C14_Witness ==
    /\ arrived /\ ~tripActive /\ screen = "arrival"
    /\ lastEvent = "position" /\ currentPosition = <<100, 26>>
    /\ routeSteps = RouteMain.steps /\ currentStepIndex = 1

\* C15 (as claimed): a position update processed while the route geometry has
\* fewer than 2 points does not set offRouteStartTime or isOffRoute, and
\* dispatches no reroute.
C15_SentinelIsNoSignal ==
    [][ \A pos \in Positions :
          (updatePosition(pos) /\ tripActive /\ ~checkArrival(pos)
             /\ Len(routeGeometry) < 2)
          => /\ offRouteStartTime' = offRouteStartTime
             /\ isOffRoute' = isOffRoute
             /\ ~Dispatches ]_vars

\* C16: while a reroute fetch is in flight on an active trip, a position
\* update is taken in and processed against the installed route: the position
\* is stored, the step index is tracked along the installed steps, the
\* distance to the installed geometry is recomputed, and route, steps and the
\* fetch stay as they are.
C16_UpdatesProcessedInFlight ==
    [][ \A pos \in Positions :
          (updatePosition(pos) /\ tripActive /\ isRerouting /\ ~checkArrival(pos))
          => /\ currentPosition' = pos
             /\ currentStepIndex' = determineCurrentStep(routeSteps, pos, currentStepIndex)
             /\ (HasGeometry =>
                   distanceToRoute' = findClosestPointOnRoute(pos, routeGeometry))
             /\ UNCHANGED <<routeGeometry, routeSteps, isRerouting, rerouteFetches>> ]_vars

\* C16 witness: with the fetch in flight, the sample 1 m from the turn of the
\* installed three-step route moved the index to the last step; the distance
\* to the installed geometry is 0.
C16_Witness ==
    /\ tripActive /\ isRerouting /\ rerouteFetches = 1
    /\ lastEvent = "within" /\ currentPosition = <<99, 0>>
    /\ routeSteps = RouteMain.steps /\ currentStepIndex = 2
    /\ distanceToRoute = 0

\* C17: a reroute fetch that resolves with a route after an on-route sample
\* cleared offRouteStartTime is still applied (route and steps replaced,
\* currentStepIndex 0, lastRerouteTime the current time); and an on-route
\* sample leaves the fetch in flight.
C17_StaleSuccessApplied ==
    [][ /\ (ResolvesWith("rerouteSuccess") /\ lastCheck = "within"
               /\ offRouteStartTime = Null)
           => /\ \E route \in Routes :
                     routeGeometry' = route.geometry /\ routeSteps' = route.steps
              /\ currentStepIndex' = 0
              /\ lastRerouteTime' = now
        /\ \A pos \in Positions :
              (updatePosition(pos) /\ ReachesCheck(pos) /\ ~Above75(pos))
              => UNCHANGED <<rerouteFetches, isRerouting>> ]_vars

\* C17 witness: the last deviation check was within the threshold, and the
\* fetch that was in flight has since installed the two-step route.
C17_Witness ==
    /\ lastEvent = "rerouteSuccess" /\ tripActive
    /\ lastCheck = "within" /\ withinSinceArm
    /\ routeGeometry = RouteAlt.geometry /\ routeSteps = RouteAlt.steps
    /\ currentStepIndex = 0 /\ lastRerouteTime = now
    /\ currentPosition = <<99, 0>>

\* a step that is the resolution of startTrip's fetch
StartResolvesWith(outcome) ==
    initialFetches' = initialFetches - 1 /\ lastEvent' = outcome

\* C19: when startTrip's route fetch fails, that call starts no trip:
\* tripActive is left as it was (false, unless another startTrip call set
\* it), no geometry or steps are installed, and the error screen is shown;
\* and while tripActive is false a position update runs no navigation logic
\* (no step advance, no off-route check, no arrival).
C19_InitialFailureFatal ==
    [][ /\ StartResolvesWith("startTripFailure")
           => /\ UNCHANGED <<tripActive, routeGeometry, routeSteps, currentStepIndex>>
              /\ screen' = "error"
        /\ \A pos \in Positions :
              (updatePosition(pos) /\ ~tripActive)
              => /\ UNCHANGED <<engine, screen, rerouteFetches>>
                 /\ lastEvent' = "position" ]_vars

\* C19 witness: startTrip's fetch has just failed with a position known: the
\* error screen is shown, no trip is active and no route is installed.
C19_Witness ==
    /\ lastEvent = "startTripFailure" /\ screen = "error"
    /\ ~tripActive /\ ~arrived /\ HasLat(currentPosition)
    /\ routeGeometry = NoGeometry /\ routeSteps = << >>
    /\ initialFetches = 0

\* the session fields as resetApp leaves them
SessionReset ==
    /\ routeGeometry = NoGeometry /\ routeSteps = << >>
    /\ currentStepIndex = 0 /\ offRouteStartTime = Null /\ ~isRerouting

\* C20 (as claimed): endTrip / resetApp leave routeGeometry null, routeSteps
\* empty, currentStepIndex 0, offRouteStartTime null and isRerouting false,
\* and with no trip active these stay so in every step but the one in which
\* startTrip installs its route, also when a reroute fetch dispatched
\* before the reset resolves after it.
C20_ResetUntilNextStart ==
    [][ /\ (screen \in {"nav", "arrival"} /\ screen' = "start") => SessionReset'
        /\ (SessionReset /\ ~tripActive /\ ~StartResolvesWith("startTripSuccess"))
           => SessionReset' ]_vars

\* C18: on an active trip whose samples all stay beyond 75 m from the
\* installed route, with samples arriving, time advancing and every fetch
\* resolving, whenever no reroute fetch is in flight one is eventually
\* dispatched: after each resolution, success or failure, there is another
\* dispatch, without end.
C18_NoRetryCeiling ==
    (tripActive /\ ~isRerouting) ~> isRerouting

\* C18 witness: a fetch has been dispatched 10 s or more after an earlier
\* reroute succeeded.
C18_Witness ==
    /\ tripActive /\ isRerouting /\ lastEvent = "dispatch"
    /\ Truthy(lastRerouteTime) /\ now - lastRerouteTime >= REROUTE_DEBOUNCE

\* C21: in every reachable state getCurrentInstruction returns the
\* "calculating" placeholder when routeSteps is empty, and it never throws.
C21_InstructionNeverThrows ==
    /\ Len(routeSteps) = 0 => getCurrentInstruction = Calculating
    /\ getCurrentInstruction.icon # Throws.icon

\* C21 witness: a trip is active on a route that has no steps, and the
\* instruction is the placeholder.
C21_Witness ==
    /\ tripActive /\ lastEvent = "startTripSuccess"
    /\ routeGeometry = RouteDegenerate.geometry /\ routeSteps = << >>
    /\ getCurrentInstruction.roadName = <<"Calculating route...">>

\* the call looked at has returned
Returned(fn) == lastEvent = fn /\ call.fn = fn

\* the step the index stands on, when there is one
OnStep == currentStepIndex < Len(routeSteps)

TurnGlyphs == {"left", "slight left", "right", "slight right", "loop"}

\* C23 (as claimed): for a current step that is neither arrive nor depart,
\* beyond 3218.69 m from its maneuver location getCurrentInstruction gives
\* "Continue on <road>" and no turn icon; at or below that distance it gives
\* the maneuver's icon, the road name and the formatted distance.
C23_LongStretchWithoutTurnIcon ==
    (Returned("getCurrentInstruction") /\ OnStep
       /\ StepAt(currentStepIndex).type \notin {"arrive", "depart"})
    => LET step == StepAt(currentStepIndex)
       IN  IF getDistanceSq(currentPosition, step.location) > longStretchDistanceSq
           THEN /\ call.ret.roadName = <<"Continue on ", step.name>>
                /\ call.ret.icon \notin TurnGlyphs
           ELSE /\ call.ret.icon = getManeuverIcon(step.type, step.modifier)
                /\ call.ret.roadName = <<step.name>>
                /\ call.ret.distance =
                      formatDistance(getDistanceCm(currentPosition, step.location))

\* the number formatDistance shows is the nearest of its kind to the distance
FormatLaw(cm, out) ==
    IF cm * 10 >= 160934
    THEN /\ out[1] = "mi"
         /\ out[2] * 160934 - cm * 10 <= 80467
         /\ cm * 10 - out[2] * 160934 <= 80467
    ELSE /\ out[1] = "ft"
         /\ out[2] % 50 = 0
         /\ out[2] * 2500000 - cm * 82021 <= 62500000
         /\ cm * 82021 - out[2] * 2500000 <= 62500000

\* C24 (as claimed): formatDistance shows miles with one decimal when
\* meters / 1609.34 >= 0.1 and otherwise feet rounded to the nearest
\* multiple of 50; formatDistance(1609.34) = "1.0 mi" and
\* formatDistance(100) = "300 ft".
C24_FormatDistance300 ==
    Returned("formatDistance")
    => /\ FormatLaw(call.arg, call.ret)
       /\ call.arg = 160934 => call.ret = <<"mi", 10>>
       /\ call.arg = 10000 => call.ret = <<"ft", 300>>

\* C24 (amended): as above, with formatDistance(100) = "350 ft".
C24_FormatDistance350 ==
    Returned("formatDistance")
    => /\ FormatLaw(call.arg, call.ret)
       /\ call.arg = 160934 => call.ret = <<"mi", 10>>
       /\ call.arg = 10000 => call.ret = <<"ft", 350>>

\* C24 witness: formatDistance(100) has returned "350 ft".
C24_Witness ==
    Returned("formatDistance") /\ call.arg = 10000 /\ call.ret = <<"ft", 350>>

\* C27: getCurrentStepGeometry returns the current position followed by the
\* current step's geometry when that is non-empty; otherwise the line from
\* the current position to the next step's maneuver location (the last
\* step's own when the current step is the last); and the empty list when
\* there are no steps or the index is past the last step.
C27_StepGeometry ==
    Returned("getCurrentStepGeometry")
    => IF ~OnStep THEN call.ret = << >>
       ELSE LET step == StepAt(currentStepIndex)
            IN  IF step.geometry # << >>
                THEN /\ Len(call.ret) = Len(step.geometry) + 1
                     /\ call.ret[1] = currentPosition
                     /\ \A i \in 1 .. Len(step.geometry) :
                           call.ret[i + 1] = step.geometry[i]
                ELSE call.ret =
                       << currentPosition,
                          IF currentStepIndex = Len(routeSteps) - 1
                          THEN step.location
                          ELSE StepAt(currentStepIndex + 1).location >>

\* C27 witness: on the turn, which has no geometry of its own, followed by
\* the arrive step, the line runs from the position to the arrival point.
C27_Witness ==
    /\ Returned("getCurrentStepGeometry") /\ currentStepIndex = 0
    /\ Len(routeSteps) = 2
    /\ routeSteps[1].type = "turn" /\ routeSteps[2].type = "arrive"
    /\ call.ret = << currentPosition, <<100, 100>> >>


\* a sample whose deviation check calls handleReroute: over the threshold, the
\* timer set and 3 s old, no fetch in flight
RequestsReroute(pos) ==
    /\ ReachesCheck(pos)
    /\ Above75(pos)
    /\ Truthy(offRouteStartTime)
    /\ now - offRouteStartTime >= OFF_ROUTE_DURATION
    /\ ~isRerouting

\* C29: a reroute request made while lastRerouteTime is set and less than
\* 10 000 ms old does nothing: no fetch is dispatched, isRerouting stays false,
\* and routeGeometry, routeSteps, offRouteStartTime, isOffRoute and
\* lastRerouteTime keep their values; the step index is the one
\* determineCurrentStep gave for the sample, not reset.
C29_DebouncedRequestIsNoOp ==
    [][\A pos \in Positions :
         (updatePosition(pos) /\ RequestsReroute(pos)
            /\ Truthy(lastRerouteTime) /\ now - lastRerouteTime < REROUTE_DEBOUNCE)
         => /\ ~Dispatches
            /\ ~isRerouting'
            /\ UNCHANGED <<routeGeometry, routeSteps, offRouteStartTime,
                           isOffRoute, lastRerouteTime>>
            /\ currentStepIndex'
                 = determineCurrentStep(routeSteps, pos, currentStepIndex)
            /\ Truthy(offRouteStartTime')]_vars

\* a request was debounced with the deviation timer pending
C29_Witness ==
    /\ lastEvent = "debounced"
    /\ Truthy(lastRerouteTime)
    /\ now - lastRerouteTime < REROUTE_DEBOUNCE
    /\ Truthy(offRouteStartTime)
    /\ ~isRerouting


\* a step in which a fetched route is installed
InstallsRoute ==
    ResolvesWith("rerouteSuccess") \/ StartResolvesWith("startTripSuccess")

\* C30: on a non-empty step list determineCurrentStep returns an index from
\* the current one up to the last step's, on an empty list 0; so the step
\* index never decreases while the same steps stay installed.
C30_StepIndexMonotoneBounded ==
    [][ /\ \A pos \in Positions :
             TracksStep(pos)
             => IF Len(routeSteps) = 0
                THEN currentStepIndex' = 0
                ELSE /\ currentStepIndex <= currentStepIndex'
                     /\ currentStepIndex' <= Len(routeSteps) - 1
        /\ (routeSteps' = routeSteps /\ ~InstallsRoute)
             => currentStepIndex' >= currentStepIndex ]_vars

\* a sample next to the turn has taken the index over the depart step and the
\* turn to the last step
C30_Witness ==
    /\ tripActive
    /\ lastEvent \in {"arm", "wait", "debounced", "dispatch", "within"}
    /\ Len(routeSteps) = 3
    /\ currentPosition = <<99, 0>>
    /\ currentStepIndex = Len(routeSteps) - 1


\* C28: decodePolyline undoes the reference encoder at 1e-5 degree: for every
\* coordinate sequence the decoding of its encoding is the sequence itself,
\* with negative and positive deltas and deltas of one to six chunks; the
\* empty string decodes to the empty sequence; and the worked example of the
\* encoding decodes to its three points.
C28_DecodeInvertsEncode ==
    Returned("decodePolyline")
    => /\ \A coords \in PolylineCoords :
            call.arg = encodePolyline(coords) => call.ret = coords
       /\ call.arg = << >> => call.ret = << >>
       /\ call.arg = PolylineExample
            => call.ret = << <<3850000, -12020000>>, <<4070000, -12095000>>,
                             <<4325200, -12645300>> >>

\* a string of a six-chunk positive delta and a negative delta has been
\* decoded back to its points
C28_Witness ==
    /\ Returned("decodePolyline")
    /\ call.ret = << <<-9000000, -18000000>>, <<9000000, 18000000>>, <<-1, 16>> >>
    /\ call.arg = encodePolyline(call.ret)
    /\ Len(Chunks(ZigZag(36000000))) = 6


\* C25 (as claimed): route construction fails with a malformed-route error
\* when the provider route has more than one leg, and never builds a route
\* from the first leg alone.
C25_MultiLegFailsFast ==
    (Returned("parseRoute") /\ Len(call.arg.legs) > 1)
    => call.ret.error = "Malformed route"

\* the response got through with a body, and the body as fetchRoute reads it
Answered == call.arg.reached /\ call.arg.ok
Refused == call.arg.data.code # "Ok"
Routeless == ~call.arg.data.routesPresent \/ Len(call.arg.data.routes) = 0

\* C26: fetchRoute throws the no-route error, and nothing is installed, when
\* the response body has a status other than Ok or has no route list or an
\* empty one; it returns a route only for status Ok with at least one route,
\* and then the one parsed from the first route of the list.
C26_FetchRejectsWithoutRoute ==
    Returned("fetchRoute")
    => /\ (Answered /\ (Refused \/ Routeless))
            => call.ret.error = "No route found"
       /\ call.ret.error = "none"
            => /\ Answered /\ ~Refused /\ ~Routeless
               /\ call.ret = parseRoute(call.arg.data.routes[1])
       /\ call.ret.error # "none"
            => /\ call.ret.route = << >>
               /\ routeGeometry = NoGeometry /\ routeSteps = << >> /\ ~tripActive

\* a response of status NoRoute that carries a route has been refused
C26_Witness ==
    /\ Returned("fetchRoute")
    /\ Answered /\ Refused /\ ~Routeless
    /\ call.ret.error = "No route found"


\* C31 (as claimed): in every reachable state an outstanding reroute fetch
\* implies isRerouting, and no two reroute fetches are outstanding together,
\* also when a trip is ended and a new one started while a fetch is pending.
C31_OutstandingImpliesRerouting ==
    /\ rerouteFetches > 0 => isRerouting
    /\ rerouteFetches <= 1

\* C32 (as claimed): a completion of the initial route fetch that arrives
\* right after endTrip, before any further startTrip, installs no route and
\* leaves tripActive false.
C32_EndedTripStaysInactive ==
    [][ (lastEvent = "endTrip" /\ StartResolvesWith("startTripSuccess"))
        => /\ ~tripActive'
           /\ UNCHANGED <<routeGeometry, routeSteps>> ]_vars

\* C33 (as claimed): tripActive and arrived are never both true.
C33_ActiveExcludesArrived == ~(tripActive /\ arrived)

\* C34: in every reachable state isOffRoute is true exactly when
\* offRouteStartTime is set; so whichever step sets or clears the one sets or
\* clears the other.
C34_FlagAgreesWithTimer == isOffRoute <=> Truthy(offRouteStartTime)

\* an over-threshold sample has set the flag and the timer together
C34_Witness ==
    /\ lastEvent = "arm"
    /\ isOffRoute
    /\ offRouteStartTime = now

\* C35: after determineCurrentStep has run for a position update, the step
\* at currentStepIndex is a depart step only if it is the last step: a depart
\* step with a successor is passed whatever its distance.
C35_DepartWithSuccessorSkipped ==
    (lastEvent = "advance" /\ Len(routeSteps) > 0)
    => (StepAt(currentStepIndex).type = "depart"
          => currentStepIndex = Len(routeSteps) - 1)

\* the index stands past a depart step whose maneuver point is some 94 m away
C35_Witness ==
    /\ lastEvent = "advance"
    /\ routeSteps = << Step("depart", <<0, 0>>), Step("turn", <<100, 0>>) >>
    /\ currentPosition = <<50, -80>>
    /\ currentStepIndex = 1

\* C36: a position update while no trip is active changes the position only:
\* route, step index, distance to the route, off-route timer and flag,
\* isRerouting, lastRerouteTime, tripActive and arrived keep their values, and
\* no fetch is dispatched.
C36_InactiveUpdateOnlyMovesPosition ==
    [][ \A pos \in Positions :
          (updatePosition(pos) /\ ~tripActive)
          => /\ currentPosition' = pos
             /\ UNCHANGED <<routeGeometry, routeSteps, currentStepIndex,
                            distanceToRoute, offRouteStartTime, isOffRoute,
                            isRerouting, lastRerouteTime, tripActive, arrived>>
             /\ ~Dispatches
             /\ UNCHANGED initialFetches ]_vars

\* a sample came in after arrival, with the route of the trip still installed
C36_Witness ==
    /\ lastEvent = "position"
    /\ arrived /\ ~tripActive
    /\ HasGeometry
    /\ HasLat(currentPosition)

====
